---------------------------- MODULE Spec2Model ----------------------------
(***************************************************************************)
(* A model of jedi/evaluate_representation.py: the wrappers the evaluator  *)
(* builds around parsed definitions (Class, Function, Instance,            *)
(* InstanceElement, Execution, Generator, Array) and the operations on     *)
(* them.  The module holds one state machine per group of operations,      *)
(* over one set of variables:                                              *)
(*   SpecParams  Execution.get_params and get_var_args_iterator            *)
(*   SpecClass   Class.get_super_classes                                   *)
(*   SpecArray   Array.get_index_types and get_exact_index_types           *)
(*   SpecCache   the construction of wrappers (cache.CachedMetaClass)      *)
(*   SpecReturn  Execution.get_return_types on functions that call each    *)
(*               other; FairSpecReturn adds the progress of the evaluation *)
(*   SpecCopy    Execution.copy_properties and _scope_copy: the copies two *)
(*               Executions of one function make of its nested scope       *)
(*   SpecNames   the names of a class and of its instances:                *)
(*               Class.get_defined_names, Instance.get_self_properties,    *)
(*               Instance.get_defined_names and Instance.scope_generator   *)
(*   SpecDecorated  Function.get_decorated_func, and get_return_types and   *)
(*               Generator.iter_content on a decorated or generator function *)
(* Each specification draws the analysed program (the parser's definition  *)
(* tree and what the external statement evaluator answers) in its Init.    *)
(***************************************************************************)
EXTENDS Integers, Sequences, FiniteSets, TLC

VARIABLES
    params,      \* the parser's parameter list of the callable (pr.Param nodes)
    is_bound,    \* TRUE when Execution.base is an InstanceElement
    execution,   \* the Execution under study: var_args and the get_params memo
    classes,     \* the parser's class definitions and what their superclass expressions evaluate to
    super_memo,  \* the memoize_default table of Class.get_super_classes
    array,       \* the parser's container literal (pr.Array) behind an Array wrapper
    lookup,      \* the last Array.get_index_types call: its index and its outcome
    objects,     \* the wrapper objects constructed so far, in order of creation
    cache_table, \* the table of cache.CachedMetaClass: constructor arguments -> object
    constructed, \* the constructor calls made so far, each with the object it returned
    functions,   \* the function definitions: docstring hints, return statements
    executions,  \* the Execution objects created so far, in order of creation
    stack,       \* the get_return_types calls in progress, innermost last
    return_memo, \* the memoized get_return_types results, per Execution object
    refused,     \* the (callable, argument list) keys the recursion guard refused
    result,      \* the outcome of the caller's get_return_types calls
    heap,        \* the parser nodes: the definition tree, then the copies made of it
    attrs,       \* the function's returns, asserts, statements and subscopes lists
    callers,     \* the Executions of the function: the argument list of each
    copies,      \* the memoized returns/asserts/statements/subscopes of each Execution
    scope_memo,  \* the memoized _scope_copy results of each Execution
    own_params,  \* the memoized get_params results of each Execution
    members,     \* per class: its declared member names and its subscopes
    names_call,  \* the receiver class and the results of the name queries made on it
    fdef,        \* the decorated function: decorators, generator flags, returns, docstring
    applications, \* the decorator calls _decorated_func has made, in order
    resolved,    \* the outcome of the caller's get_decorated_func call
    queries,     \* the outcomes of the caller's get_return_types calls, in order
    content      \* the outcome of Generator.iter_content on the last query's Generator

varsP == <<params, is_bound, execution>>
varsK == <<classes, super_memo>>
varsA == <<array, lookup>>
varsW == <<objects, cache_table, constructed>>
varsR == <<functions, executions, stack, return_memo, refused, result>>
varsC == <<heap, attrs, callers, copies, scope_memo, own_params>>
varsN == <<members, names_call>>
varsD == <<fdef, applications, resolved, queries, content>>

vars == <<varsP, varsK, varsA, varsW, varsR, varsC, varsN, varsD>>

-----------------------------------------------------------------------------
(* Each specification exercises one group of variables and leaves the others *)
(* at their idle values.                                                     *)

\* No Execution constructed yet.
NoExecution == [live |-> FALSE, var_args |-> <<>>, cached |-> FALSE, memo |-> <<>>, raised |-> ""]

IdleP == params = <<>> /\ is_bound = FALSE /\ execution = NoExecution
IdleK == classes = <<>> /\ super_memo = <<>>
IdleA == array = <<>> /\ lookup = <<>>
IdleW == objects = <<>> /\ cache_table = {} /\ constructed = <<>>
IdleR ==
    /\ functions = <<>> /\ executions = <<>> /\ stack = <<>>
    /\ return_memo = {} /\ refused = {} /\ result = <<>>

IdleC ==
    /\ heap = <<>> /\ attrs = <<>> /\ callers = <<>>
    /\ copies = {} /\ scope_memo = {} /\ own_params = {}

IdleN == members = <<>> /\ names_call = <<>>

IdleD ==
    /\ fdef = <<>> /\ applications = <<>> /\ resolved = <<>>
    /\ queries = <<>> /\ content = <<>>

FrameP == UNCHANGED <<varsK, varsA, varsW, varsR, varsC, varsN, varsD>>
FrameK == UNCHANGED <<varsP, varsA, varsW, varsR, varsC, varsN, varsD>>
FrameA == UNCHANGED <<varsP, varsK, varsW, varsR, varsC, varsN, varsD>>
FrameW == UNCHANGED <<varsP, varsK, varsA, varsR, varsC, varsN, varsD>>
FrameR == UNCHANGED <<varsP, varsK, varsA, varsW, varsC, varsN, varsD>>
FrameC == UNCHANGED <<varsP, varsK, varsA, varsW, varsR, varsN, varsD>>
FrameN == UNCHANGED <<varsP, varsK, varsA, varsW, varsR, varsC, varsD>>
FrameD == UNCHANGED <<varsP, varsK, varsA, varsW, varsR, varsC, varsN>>

-----------------------------------------------------------------------------
(* Generic helpers *)

SeqsUpTo(S, n) == UNION {[1..k -> S] : k \in 0..n}

Range(s) == {s[i] : i \in DOMAIN s}

\* The orders in which a Python set of the elements of S may be iterated.
Orders(S) == {s \in [1..Cardinality(S) -> S] : \A i, j \in DOMAIN s : i # j => s[i] # s[j]}

-----------------------------------------------------------------------------
(* Bounds *)

MaxParams == 2
MaxArgs == 2

-----------------------------------------------------------------------------
(* The parser's view of a function definition and of a call *)

\* Python's None as a key, and as str(None) in keys_used.
None == "None"

\* next(var_arg_iterator, (None, None)): the value None.
NoValue == <<0, 0>>

NOARRAY == "noarray"
TUPLE == "tuple"
DICT == "dict"

\* The i-th declared parameter is named by position.
ParamName == <<"a", "b", "c", "d">>

\* commands[0] of a parameter: '*', '**' or anything else; assignment_details
\* is non-empty exactly when the parameter declares a default.
ParamShapes == {[kind |-> "plain", has_default |-> FALSE],
                [kind |-> "plain", has_default |-> TRUE],
                [kind |-> "star", has_default |-> FALSE],
                [kind |-> "dstar", has_default |-> FALSE]}

MkParams(shapes) == [i \in DOMAIN shapes |-> [name |-> ParamName[i], kind |-> shapes[i].kind, has_default |-> shapes[i].has_default, is_generated |-> FALSE]]

\* The names a keyword argument may carry: those of the first two parameters
\* and two that no parameter declares.
ArgKeys == {"a", "b", "x", "y"}

\* One element of var_args:
\*   obj    an already evaluated object (not a pr.Statement)
\*   pos    a statement without assignment details
\*   kw     a statement whose assignment details start with a pr.Call key
\*   nokey  a statement with assignment details but no pr.Call key
\*   star   *expr, expr evaluating to one array of n fields
\*   dstar  **expr, expr evaluating to one mapping with the keys x, y in order
ArgShapes == {[kind |-> "obj", key |-> None, n |-> 0],
              [kind |-> "pos", key |-> None, n |-> 0],
              [kind |-> "nokey", key |-> None, n |-> 0],
              [kind |-> "star", key |-> None, n |-> 2],
              [kind |-> "dstar", key |-> None, n |-> 2]}
             \cup {[kind |-> "kw", key |-> k, n |-> 0] : k \in ArgKeys}

DstarKeys == <<"x", "y">>

Pair(k, v) == [key |-> k, value |-> v]

\* What iterate() yields for the i-th element of var_args; a value is named
\* by its place <<i, j>> in the call.
IterateOne(arg, i) ==
    CASE arg.kind \in {"obj", "pos"} -> <<Pair(None, <<i, 0>>)>>
      [] arg.kind = "kw" -> <<Pair(arg.key, <<i, 0>>)>>
      [] arg.kind = "nokey" -> <<>>
      [] arg.kind = "star" -> [j \in 1..arg.n |-> Pair(None, <<i, j>>)]
      [] arg.kind = "dstar" -> [j \in 1..arg.n |-> Pair(DstarKeys[j], <<i, j>>)]

RECURSIVE IterateFrom(_, _)
IterateFrom(args, i) ==
    IF i > Len(args) THEN <<>> ELSE IterateOne(args[i], i) \o IterateFrom(args, i + 1)

get_var_args_iterator(args) == IterateFrom(args, 1)

-----------------------------------------------------------------------------
(* Execution.get_params *)

\* A name of the result list.
\*   origin "self"  the copy of the first parameter's name, parent = the instance
\*   origin "orig"  param.get_name() itself: the parser's name node, whose
\*                  parameter still holds the declared default expression
\*   origin "copy"  gen_param_name_copy: a copied name under a copied parameter
\*                  whose commands are one pr.Array(array_type, keys, values)
\* SelfName without line 535 (self_name.parent = self.base.instance).
SelfNameUnowned(param) == [name |-> param.name, origin |-> "self", array_type |-> NOARRAY, keys |-> <<>>, values |-> <<>>, parent |-> "function"]

SelfName(param) == [name |-> param.name, origin |-> "self", array_type |-> NOARRAY, keys |-> <<>>, values |-> <<>>, parent |-> "instance"]

OrigName(param) == [name |-> param.name, origin |-> "orig", array_type |-> NOARRAY, keys |-> <<>>, values |-> <<>>, parent |-> "function"]

\* The scope a generated parameter is put under: var_args.parent when var_args
\* is a pr.Array (a parsed call), the callable itself otherwise.
IsParsedArray(args) == \A i \in DOMAIN args : args[i].kind # "obj"

gen_param_name_copy(param, keys, values, array_type, args) == [name |-> param.name, origin |-> "copy", array_type |-> array_type, keys |-> keys, values |-> values, parent |-> IF IsParsedArray(args) THEN "call_scope" ELSE "base"]

\* param_dict: the parameter a name stands for (the last one of that name).
ParamDictNames(ps) == {ps[i].name : i \in DOMAIN ps}

ParamDict(ps, k) == ps[CHOOSE i \in DOMAIN ps : ps[i].name = k /\ \A j \in DOMAIN ps : ps[j].name = k => j <= i]

\* next(var_arg_iterator, (None, None)) on the loop state.
NextPair(st) == IF st.it = <<>> THEN [st EXCEPT !.key = None, !.value = NoValue] ELSE [st EXCEPT !.key = Head(st.it).key, !.value = Head(st.it).value, !.it = Tail(st.it)]

\* The loop "while key:": every keyword argument met is bound to the parameter
\* of its name, or buffered in non_matching_keys.
RECURSIVE DrainKeys(_, _, _)
DrainKeys(st, ps, args) ==
    IF st.key = None THEN st
    ELSE LET matched == st.key \in ParamDictNames(ps)
             st1 == [st EXCEPT !.keys_only = TRUE,
                               !.non_matching = IF matched THEN @ ELSE Append(@, Pair(st.key, st.value)),
                               !.keys_used = IF matched THEN @ \cup {st.key} ELSE @,
                               !.result = IF matched THEN Append(@, gen_param_name_copy(ParamDict(ps, st.key), <<>>, <<st.value>>, NOARRAY, args)) ELSE @]
         IN DrainKeys(NextPair(st1), ps, args)

\* The positional pairs at the front of the iterator.
RECURSIVE PositionalPrefix(_)
PositionalPrefix(it) ==
    IF it = <<>> \/ Head(it).key # None THEN <<>> ELSE <<Head(it)>> \o PositionalPrefix(Tail(it))

\* The branch commands[0] == '*': values is the pending value, if any, and
\* every following positional value; a keyword pair met is pushed back, and
\* key and value are left at the last pair the for loop read.
StarBranch(st) ==
    LET first == IF st.value # NoValue THEN <<st.value>> ELSE <<>>
        pre == PositionalPrefix(st.it)
        rest == SubSeq(st.it, Len(pre) + 1, Len(st.it))
        last == IF rest # <<>> THEN Head(rest) ELSE IF pre # <<>> THEN pre[Len(pre)] ELSE Pair(st.key, st.value)
    IN [st EXCEPT !.it = rest, !.key = last.key, !.value = last.value,
                  !.array_type = TUPLE, !.values = first \o [j \in DOMAIN pre |-> pre[j].value]]

\* The branch commands[0] == '**': keys, values = zip(*non_matching_keys).
DstarBranch(st) ==
    [st EXCEPT !.array_type = DICT,
               !.keys = [j \in DOMAIN st.non_matching |-> st.non_matching[j].key],
               !.values = [j \in DOMAIN st.non_matching |-> st.non_matching[j].value]]

\* NormalBranch without the branch on param.assignment_details.
NormalBranchNoDefault(st, param, idx) == IF st.value # NoValue THEN [st EXCEPT !.values = <<st.value>>] ELSE [st EXCEPT !.values = <<>>]

\* The branch "elif not keys_only" of a normal parameter: its value, or with
\* a declared default the parser's own name (and the parser's parameter is
\* flagged is_generated), or nothing.
NormalBranch(st, param, idx) ==
    IF st.value # NoValue THEN [st EXCEPT !.values = <<st.value>>]
    ELSE IF param.has_default
         THEN [st EXCEPT !.ignore_creation = TRUE, !.result = Append(@, OrigName(param)), !.generated = @ \cup {idx}]
         ELSE [st EXCEPT !.values = <<>>]

\* One pass of "for param in self.base.params[start_offset:]".
ParamBody(st, ps, idx, args) ==
    LET param == ps[idx]
        st0 == DrainKeys(NextPair(st), ps, args)
        st1 == [st0 EXCEPT !.keys = <<>>, !.values = <<>>, !.array_type = NOARRAY, !.ignore_creation = FALSE]
        st2 == CASE param.kind = "star" -> StarBranch(st1)
                 [] param.kind = "dstar" -> DstarBranch(st1)
                 [] param.kind = "plain" /\ ~st1.keys_only -> NormalBranch(st1, param, idx)
                 [] OTHER -> st1
    IN IF ~st2.ignore_creation /\ (~st2.keys_only \/ param.kind = "dstar")
       THEN [st2 EXCEPT !.keys_used = @ \cup {st2.key},
                        !.result = Append(@, gen_param_name_copy(param, st2.keys, st2.values, st2.array_type, args))]
       ELSE st2

RECURSIVE ParamLoop(_, _, _, _)
ParamLoop(st, ps, idx, args) ==
    IF idx > Len(ps) THEN st ELSE ParamLoop(ParamBody(st, ps, idx, args), ps, idx + 1, args)

\* The state before the loop: the self name of an instance-bound callable,
\* and the iterator over var_args.
\* StartOffset without the test isinstance(self.base, InstanceElement).
StartOffsetAlways(bound, ps) == IF ps # <<>> THEN 1 ELSE 0

StartOffset(bound, ps) == IF bound /\ ps # <<>> THEN 1 ELSE 0

LoopStart(ps, bound, args) ==
    [it |-> get_var_args_iterator(args), key |-> None, value |-> NoValue,
     result |-> IF StartOffset(bound, ps) = 1 THEN <<SelfName(ps[1])>> ELSE <<>>,
     non_matching |-> <<>>, keys_used |-> {}, keys_only |-> FALSE,
     keys |-> <<>>, values |-> <<>>, array_type |-> NOARRAY,
     ignore_creation |-> FALSE, generated |-> {}]

LoopEnd(ps, bound, args) == ParamLoop(LoopStart(ps, bound, args), ps, StartOffset(bound, ps) + 1, args)

\* "for k in set(param_dict) - keys_used" after a keyword argument was seen.
Leftover(ps, st) == IF st.keys_only THEN ParamDictNames(ps) \ st.keys_used ELSE {}

\* The result list, the leftover names appended in the order `order`.
get_params(ps, bound, args, order) ==
    LET st == LoopEnd(ps, bound, args)
    IN st.result \o [j \in DOMAIN order |-> gen_param_name_copy(ParamDict(ps, order[j]), <<>>, <<>>, NOARRAY, args)]

\* The parser's parameters after the call: line 597 sets is_generated on them.
ParamsAfter(ps, bound, args) ==
    LET st == LoopEnd(ps, bound, args)
    IN [i \in DOMAIN ps |-> IF i \in st.generated THEN [ps[i] EXCEPT !.is_generated = TRUE] ELSE ps[i]]

-----------------------------------------------------------------------------
(* SpecParams: one callable, one Execution of it, and get_params on it *)

InitParams ==
    /\ IdleK /\ IdleA /\ IdleW /\ IdleR /\ IdleC /\ IdleN /\ IdleD
    /\ \E shapes \in SeqsUpTo(ParamShapes, MaxParams) : params = MkParams(shapes)
    /\ is_bound \in BOOLEAN
    /\ execution = NoExecution

\* Execution(base, var_args): the object under study is constructed, nothing
\* memoized on it yet.
NewExecution ==
    /\ ~execution.live
    /\ \E args \in SeqsUpTo(ArgShapes, MaxArgs) :
          execution' = [live |-> TRUE, var_args |-> args, cached |-> FALSE, memo |-> <<>>, raised |-> ""]
    /\ UNCHANGED <<params, is_bound>>
    /\ FrameP

\* self.get_params(), first call on this Execution: computed and memoized.
GetParams ==
    /\ execution.live /\ ~execution.cached
    /\ ~(is_bound /\ params = <<>>)
    /\ \E order \in Orders(Leftover(params, LoopEnd(params, is_bound, execution.var_args))) :
          execution' = [execution EXCEPT !.cached = TRUE, !.memo = get_params(params, is_bound, execution.var_args, order)]
    /\ params' = ParamsAfter(params, is_bound, execution.var_args)
    /\ UNCHANGED is_bound
    /\ FrameP

\* self.get_params() again: memoize_default answers from its table, and the
\* body does not run.
GetParamsCached ==
    /\ execution.live /\ execution.cached
    /\ UNCHANGED vars

\* self.get_params() on an instance-bound callable that declares no
\* parameter: self.base.params[0] of line 534 raises IndexError, which leaves
\* get_params; nothing is memoized.
GetParamsRaises ==
    /\ execution.live /\ ~execution.cached
    /\ is_bound /\ params = <<>>
    /\ execution.raised = ""
    /\ execution' = [execution EXCEPT !.raised = "IndexError"]
    /\ UNCHANGED <<params, is_bound>>
    /\ FrameP

NextParams == NewExecution \/ GetParams \/ GetParamsCached \/ GetParamsRaises

SpecParams == InitParams /\ [][NextParams]_vars

-----------------------------------------------------------------------------
(* Claims about get_params *)

PlainOnly(ps) == \A i \in DOMAIN ps : ps[i].kind = "plain"

\* A call of positional arguments only: no keyword, no * or ** expansion.
PositionalOnly(args) == \A i \in DOMAIN args : args[i].kind \in {"pos", "obj"}

EmptyCopy(e) == e.origin = "copy" /\ e.values = <<>> /\ e.keys = <<>>

\* C1: a callable that is not instance-bound, with N plain parameters, called
\* with exactly N positional arguments and no keyword argument: the result of
\* get_params is, in declaration order, one binding per parameter, the i-th
\* one binding the i-th parameter to the i-th call argument.
C1_PositionalBinding ==
    (execution.cached /\ ~is_bound /\ PlainOnly(params) /\ PositionalOnly(execution.var_args) /\ Len(execution.var_args) = Len(params))
    => /\ Len(execution.memo) = Len(params)
       /\ \A i \in DOMAIN params :
             /\ execution.memo[i].name = params[i].name
             /\ execution.memo[i].origin = "copy"
             /\ execution.memo[i].values = <<<<i, 0>>>>

C1_Witness ==
    /\ execution.cached /\ ~is_bound /\ PlainOnly(params) /\ PositionalOnly(execution.var_args)
    /\ Len(params) = 2 /\ Len(execution.var_args) = 2
    /\ execution.memo[2].values = <<<<2, 0>>>>

\* The positional values of a call up to its first keyword argument, and its
\* keyword pairs whose name no parameter declares.
PositionalValues(args) == LET pre == PositionalPrefix(get_var_args_iterator(args)) IN [j \in DOMAIN pre |-> pre[j].value]

RECURSIVE UnmatchedPairs(_, _)
UnmatchedPairs(it, ps) ==
    IF it = <<>> THEN <<>>
    ELSE (IF Head(it).key # None /\ Head(it).key \notin ParamDictNames(ps) THEN <<Head(it)>> ELSE <<>>) \o UnmatchedPairs(Tail(it), ps)

\* The number of positional arguments the parameters before idx take.
PlainBefore(ps, bound, idx) == Cardinality({j \in (StartOffset(bound, ps) + 1)..(idx - 1) : ps[j].kind = "plain"})

StarBefore(ps, bound, idx) == \E j \in (StartOffset(bound, ps) + 1)..(idx - 1) : ps[j].kind = "star"

\* C2: in every call, a * parameter is bound to a tuple-typed value holding
\* the positional arguments that earlier parameters did not take, in call
\* order, up to the first keyword argument; a ** parameter is bound to a
\* dict-typed value holding every keyword argument whose name no parameter
\* declares, keys and values paired in call order.  (Stated for the calls in
\* which no keyword argument carries the name of a * or ** parameter.)
C2_VariadicBinding ==
    (execution.cached /\ \A i \in DOMAIN params : params[i].kind # "plain" => \A j \in DOMAIN execution.var_args : execution.var_args[j].key # params[i].name) =>
        \A idx \in (StartOffset(is_bound, params) + 1)..Len(params) :
            LET p == params[idx]
                pos == PositionalValues(execution.var_args)
                un == UnmatchedPairs(get_var_args_iterator(execution.var_args), params)
            IN /\ (p.kind = "star" /\ ~StarBefore(params, is_bound, idx)) =>
                      \E i \in DOMAIN execution.memo :
                          /\ execution.memo[i].name = p.name
                          /\ execution.memo[i].array_type = TUPLE
                          /\ execution.memo[i].values = SubSeq(pos, PlainBefore(params, is_bound, idx) + 1, Len(pos))
               /\ p.kind = "dstar" =>
                      \E i \in DOMAIN execution.memo :
                          /\ execution.memo[i].name = p.name
                          /\ execution.memo[i].array_type = DICT
                          /\ execution.memo[i].keys = [j \in DOMAIN un |-> un[j].key]
                          /\ execution.memo[i].values = [j \in DOMAIN un |-> un[j].value]

\* C3: a call of positional arguments only, fewer than the declared
\* parameters: a parameter that no argument reaches is bound to its own
\* declared default (the parser's name, whose parameter holds the default
\* expression) when it has one and to an empty value when it has none, and a
\* parameter that an argument reaches is bound to the argument of its own
\* position, never to another one's.
C3_DefaultFallback ==
    (execution.cached /\ PositionalOnly(execution.var_args) /\ Len(execution.var_args) < Len(params))
    => /\ Len(execution.memo) = Len(params)
       /\ \A idx \in (StartOffset(is_bound, params) + 1)..Len(params) :
             LET p == params[idx]
                 e == execution.memo[idx]
                 argpos == idx - StartOffset(is_bound, params)
             IN /\ e.name = p.name
                /\ p.kind = "plain" =>
                      IF StarBefore(params, is_bound, idx) \/ argpos > Len(execution.var_args)
                      THEN IF p.has_default THEN e = OrigName(p) ELSE EmptyCopy(e)
                      ELSE e.origin = "copy" /\ e.values = <<<<argpos, 0>>>>
                /\ p.kind # "plain" => e.origin = "copy" /\ \A v \in Range(e.values) : v[1] >= argpos

\* f(a, b=2) called with one argument.
C3_Witness ==
    /\ execution.cached /\ ~is_bound /\ Len(params) = 2 /\ PlainOnly(params)
    /\ ~params[1].has_default /\ params[2].has_default
    /\ Len(execution.var_args) = 1 /\ PositionalOnly(execution.var_args)
    /\ execution.memo[1].values = <<<<1, 0>>>>
    /\ execution.memo[2] = OrigName(params[2])

\* C6: evaluation never changes a field of a parser-owned node (here: the
\* parameters of the callable, across any get_params call).
C6_ParserTreeUnchanged == [][params' = params]_vars

\* A call with a keyword argument: one that get_var_args_iterator yields
\* with a key.
HasKeyword(args) == \E j \in DOMAIN get_var_args_iterator(args) : get_var_args_iterator(args)[j].key # None

\* The entries of the result that carry the name of a parameter.
EntriesOf(p) == {i \in DOMAIN execution.memo : execution.memo[i].name = p.name}

\* A parameter bound to an argument: one of its entries holds a value of
\* the call.
BoundToArgument(p) == \E i \in EntriesOf(p) : execution.memo[i].values # <<>>

C15_KeywordModeDefaults ==
    (execution.cached /\ HasKeyword(execution.var_args)) =>
        \A idx \in (StartOffset(is_bound, params) + 1)..Len(params) :
            LET p == params[idx]
            IN  (p.kind = "plain" /\ ~BoundToArgument(p)) =>
                    /\ EntriesOf(p) # {}
                    /\ p.has_default => \E i \in EntriesOf(p) : execution.memo[i] = OrigName(p)

\* A call Python accepts as far as its keywords go: no keyword is given
\* twice, and none names a * or ** parameter or a parameter that a
\* positional argument reaches.
WellFormedKeywords(ps, bound, args) ==
    LET it == get_var_args_iterator(args)
    IN  /\ \A i, j \in DOMAIN it : (it[i].key # None /\ it[i].key = it[j].key) => i = j
        /\ \A idx \in DOMAIN ps :
              (ps[idx].kind # "plain" \/ idx - StartOffset(bound, ps) <= Len(PositionalValues(args))) =>
                  \A j \in DOMAIN it : it[j].key # ps[idx].name

\* C18: for every callable and call, no declared parameter name occurs twice
\* in the result of get_params, and a parameter bound to an argument does
\* not also appear with an empty value.  (Stated for the calls with
\* well-formed keywords.)
C18_OneBindingPerParameter ==
    (execution.cached /\ WellFormedKeywords(params, is_bound, execution.var_args)) =>
        /\ \A i, j \in DOMAIN execution.memo : execution.memo[i].name = execution.memo[j].name => i = j
        /\ \A idx \in DOMAIN params :
              BoundToArgument(params[idx]) => ~\E i \in EntriesOf(params[idx]) : EmptyCopy(execution.memo[i])

-----------------------------------------------------------------------------
(* Class.get_super_classes *)

MaxSupers == 2

\* The classes of the analysed program; object is the root class of the
\* builtin scope.
ClassNames == {"A", "B"}

ObjectName == "object"

AllClassNames == ClassNames \cup {ObjectName}

\* Values evaluate.follow_statement may return: a Class wrapper, or something
\* that is no Class (an Instance here).
ClassValue(c) == [kind |-> "Class", base |-> c]

InstanceValue(c) == [kind |-> "Instance", base |-> c]

\* IsClassValue without the isinstance test.
IsAnyValue(v) == TRUE

IsClassValue(v) == v.kind = "Class"

\* What one superclass expression may evaluate to.
SuperExprValues == {<<>>, <<InstanceValue("A")>>, <<ClassValue("A")>>, <<ClassValue("B")>>,
                    <<InstanceValue("B"), ClassValue("A")>>, <<ClassValue("B"), ClassValue("A")>>,
                    <<ClassValue(ObjectName)>>}

\* A class definition: base.supers, each with what follow_statement answers
\* for it, and whether base.parent is builtin.Builtin.scope.
ClassDef(supers, builtin) == [supers |-> supers, in_builtin |-> builtin]

ObjectDef == ClassDef(<<>>, TRUE)

\* evaluate.find_name(builtin.Builtin.scope, 'object')
FindObject == <<ClassValue(ObjectName)>>

\* The loop over self.base.supers: the Class wrappers among the values of
\* each superclass expression, in order.
RECURSIVE CollectSupers(_)
CollectSupers(supers) ==
    IF supers = <<>> THEN <<>> ELSE SelectSeq(Head(supers), IsClassValue) \o CollectSupers(Tail(supers))

get_super_classes(def) ==
    LET supers == CollectSupers(def.supers)
    IN IF supers = <<>> /\ ~def.in_builtin THEN supers \o FindObject ELSE supers

NotCached == [cached |-> FALSE, value |-> <<>>]

\* Class B derives from nothing, from A, or (malformed) from itself.
InitClass ==
    /\ IdleP /\ IdleA /\ IdleW /\ IdleR /\ IdleC /\ IdleN /\ IdleD
    /\ \E sa \in SeqsUpTo(SuperExprValues, MaxSupers), ba \in BOOLEAN, sb \in {<<>>, <<<<ClassValue("A")>>>>, <<<<ClassValue("B")>>>>} :
          classes = [c \in AllClassNames |-> CASE c = "A" -> ClassDef(sa, ba) [] c = "B" -> ClassDef(sb, FALSE) [] OTHER -> ObjectDef]
    /\ super_memo = [c \in AllClassNames |-> NotCached]

\* Class(c).get_super_classes(), first call: computed and memoized.
GetSuperClasses(c) ==
    /\ ~super_memo[c].cached
    /\ super_memo' = [super_memo EXCEPT ![c] = [cached |-> TRUE, value |-> get_super_classes(classes[c])]]
    /\ UNCHANGED classes
    /\ FrameK

\* A later call is answered from the memoize_default table.
GetSuperClassesCached(c) ==
    /\ super_memo[c].cached
    /\ UNCHANGED vars

NextClass == \E c \in AllClassNames : GetSuperClasses(c) \/ GetSuperClassesCached(c)

SpecClass == InitClass /\ [][NextClass]_vars

\* The values of all superclass expressions of a class, in evaluation order.
RECURSIVE Flatten(_)
Flatten(ss) == IF ss = <<>> THEN <<>> ELSE Head(ss) \o Flatten(Tail(ss))

\* s is t without its elements that are no Class wrapper, in order.
IsClassFilterOf(s, t) ==
    \E pick \in SUBSET (DOMAIN t) :
        /\ pick = {i \in DOMAIN t : t[i].kind = "Class"}
        /\ Len(s) = Cardinality(pick)
        /\ \A k \in DOMAIN s : \E i \in pick : Cardinality({j \in pick : j <= i}) = k /\ s[k] = t[i]

\* C8: for a class outside the builtin scope whose superclass expressions
\* yield no class (none declared, or only non-class values) the result of
\* get_super_classes is the one builtin object wrapper; when some expression
\* yields a class wrapper the result is exactly the class wrappers in
\* evaluation order (object is not added); a class of the builtin scope
\* without class-valued superclass gets the empty list.
C8_DefaultSuperclass ==
    \A c \in DOMAIN super_memo :
        super_memo[c].cached =>
            LET all == Flatten(classes[c].supers)
                some == \E i \in DOMAIN all : all[i].kind = "Class"
                r == super_memo[c].value
            IN /\ (~some /\ ~classes[c].in_builtin) => r = <<ClassValue(ObjectName)>>
               /\ (~some /\ classes[c].in_builtin) => r = <<>>
               /\ some => IsClassFilterOf(r, all)

\* A class outside the builtin scope whose only superclass expression is an
\* instance, resolved to object alone.
C8_Witness ==
    /\ DOMAIN super_memo = AllClassNames
    /\ super_memo["A"].cached
    /\ classes["A"].supers = <<<<InstanceValue("A")>>>>
    /\ ~classes["A"].in_builtin
    /\ super_memo["A"].value = <<ClassValue(ObjectName)>>

-----------------------------------------------------------------------------
(* Array.get_index_types *)

MaxElems == 2

\* The values follow_statement may give for a stored element, and the value
\* dynamic.check_array_additions may add.
ElemValues == {<<"int">>, <<"str">>, <<"int", "float">>}

DynValue == "dyn"

\* The wrapper itself, returned for a slice.
SelfValue == "self"

\* A key statement of a mapping literal: the number of its commands, whether
\* its first command has get_code (a pr.Call or pr.Array has, an operator
\* string has not), and the source text get_code gives.
KeyShapes == {[ncommands |-> 1, has_code |-> TRUE, code |-> "a"],
              [ncommands |-> 1, has_code |-> TRUE, code |-> "b"],
              [ncommands |-> 1, has_code |-> FALSE, code |-> ""],
              [ncommands |-> 2, has_code |-> TRUE, code |-> "a"]}

NoKeyStmt == [ncommands |-> 0, has_code |-> FALSE, code |-> ""]

\* A container literal: its type, its value statements (each with what it
\* evaluates to) and, for a mapping, its key statements.
Arrays ==
    {[type |-> t, keys |-> [i \in DOMAIN vs |-> NoKeyStmt], values |-> vs] : t \in {"list", "tuple", "set"}, vs \in SeqsUpTo(ElemValues, MaxElems)}
    \cup UNION {{[type |-> DICT, keys |-> ks, values |-> vs] : ks \in [1..n -> KeyShapes], vs \in [1..n -> ElemValues]} : n \in 0..MaxElems}

\* The literal an int/str Instance was built from: index.var_args[0].
IntLit(n) == [type |-> "int", n |-> n, text |-> ""]

StrLit(t) == [type |-> "str", n |-> 0, text |-> t]

\* One value an index statement may evaluate to.
LitInstance(lit) == [kind |-> "Instance", name |-> lit.type, nargs |-> 1, arg |-> lit]

OtherValues == {[kind |-> "Instance", name |-> "float", nargs |-> 1, arg |-> IntLit(0)],
                [kind |-> "Instance", name |-> "int", nargs |-> 0, arg |-> IntLit(0)],
                [kind |-> "Instance", name |-> "int", nargs |-> 2, arg |-> IntLit(0)],
                [kind |-> "Function", name |-> "f", nargs |-> 0, arg |-> IntLit(0)]}

Literals == {IntLit(n) : n \in (0 - MaxElems - 1)..MaxElems} \cup {StrLit(t) : t \in {"a", "b", "c"}}

IndexStmt(slice, follows) == [slice |-> slice, follows |-> follows]

\* index_arr: None, or a list of index statements.
NoIndex == [is_none |-> TRUE, stmts |-> <<>>]

IndexArr(stmts) == [is_none |-> FALSE, stmts |-> stmts]

IndexArrs ==
    {NoIndex, IndexArr(<<>>), IndexArr(<<IndexStmt(TRUE, <<>>)>>), IndexArr(<<IndexStmt(FALSE, <<>>)>>)}
    \cup {IndexArr(<<IndexStmt(FALSE, <<LitInstance(l)>>)>>) : l \in Literals}
    \cup {IndexArr(<<IndexStmt(FALSE, <<v>>)>>) : v \in OtherValues}
    \cup {IndexArr(<<IndexStmt(FALSE, <<LitInstance(IntLit(0)), LitInstance(IntLit(1))>>)>>),
          IndexArr(<<IndexStmt(FALSE, <<LitInstance(IntLit(0))>>), IndexStmt(FALSE, <<LitInstance(StrLit("a"))>>)>>),
          IndexArr(<<IndexStmt(FALSE, <<LitInstance(IntLit(0))>>), IndexStmt(TRUE, <<>>)>>)}

\* What a call gives its caller: a list or a set of values, or an exception.
Returned(kind, items) == [exc |-> "none", kind |-> kind, items |-> items]

Raised(exc) == [exc |-> exc, kind |-> "none", items |-> {}]

\* _follow_values: the values of the statements, chained.
RECURSIVE FollowAll(_)
FollowAll(vs) == IF vs = <<>> THEN <<>> ELSE Head(vs) \o FollowAll(Tail(vs))

RECURSIVE FollowIndex(_)
FollowIndex(stmts) == IF stmts = <<>> THEN <<>> ELSE Head(stmts).follows \o FollowIndex(Tail(stmts))

\* mixed_index == str_key: an int never equals a text.
EqualsText(mixed_index, str_key) == mixed_index.type = "str" /\ mixed_index.text = str_key

\* The scan of self._array.keys from the i-th key on: the place of the first
\* single-command key whose source text equals mixed_index, KeyError when
\* there is none; line 827 calls key.get_code() outside the try, so a
\* single-command key without get_code raises AttributeError when reached.
RECURSIVE ScanKeys(_, _, _)
ScanKeys(keys, i, mixed_index) ==
    IF i > Len(keys) THEN [exc |-> "KeyError", index |-> 0]
    ELSE IF keys[i].ncommands = 1
         THEN IF ~keys[i].has_code THEN [exc |-> "AttributeError", index |-> 0]
              ELSE IF EqualsText(mixed_index, keys[i].code) THEN [exc |-> "none", index |-> i - 1]
              ELSE ScanKeys(keys, i + 1, mixed_index)
         ELSE ScanKeys(keys, i + 1, mixed_index)

\* self._array.values[index] on a Python list: an int within -len..len-1
\* selects, any other int raises IndexError and a str raises TypeError.
ListItem(values, index) ==
    IF index.type # "int" THEN Raised("TypeError")
    ELSE IF index.n >= 0 /\ index.n < Len(values) THEN Returned("list", Range(values[index.n + 1]))
    ELSE IF index.n < 0 /\ 0 - index.n <= Len(values) THEN Returned("list", Range(values[Len(values) + index.n + 1]))
    ELSE Raised("IndexError")

get_exact_index_types(arr, mixed_index) ==
    IF arr.type = DICT
    THEN LET found == ScanKeys(arr.keys, 1, mixed_index)
         IN IF found.exc # "none" THEN Raised(found.exc) ELSE ListItem(arr.values, IntLit(found.index))
    ELSE ListItem(arr.values, mixed_index)

\* "[x for x in index_arr if ':' in x.get_commands()]"
IsSlicing(index_arr) == \E i \in DOMAIN index_arr.stmts : index_arr.stmts[i].slice

\* The test on the one index possibility before the exact lookup.
IsFixedIndex(index) == index.kind = "Instance" /\ index.name \in {"int", "str"} /\ index.nargs = 1

\* ApproximateTypes without the call of dynamic.check_array_additions.
ApproximateTypesNoAdditions(arr, additions) == Returned("set", Range(FollowAll(arr.values)))

\* The last three lines: every stored value and the scanner's additions.
ApproximateTypes(arr, additions) == Returned("set", Range(FollowAll(arr.values)) \cup additions)

get_index_types(arr, index_arr, additions) ==
    IF index_arr.is_none THEN ApproximateTypes(arr, additions)
    ELSE IF IsSlicing(index_arr) THEN Returned("list", {SelfValue})
    ELSE LET index_possibilities == FollowIndex(index_arr.stmts)
         IN IF Len(index_possibilities) = 1 /\ IsFixedIndex(index_possibilities[1])
            THEN LET exact == get_exact_index_types(arr, index_possibilities[1].arg)
                 IN IF exact.exc \in {"KeyError", "IndexError"} THEN ApproximateTypes(arr, additions) ELSE exact
            ELSE ApproximateTypes(arr, additions)

NoLookup == [called |-> FALSE, index_arr |-> NoIndex, additions |-> {}, ret |-> Raised("none")]

InitArray ==
    /\ IdleP /\ IdleK /\ IdleW /\ IdleR /\ IdleC /\ IdleN /\ IdleD
    /\ array \in Arrays
    /\ lookup = NoLookup

\* Array(array).get_index_types(index_arr); check_array_additions answers
\* with `additions`.  The wrapper keeps nothing between calls, so one call
\* per behaviour reaches every outcome.
GetIndexTypes ==
    /\ ~lookup.called
    /\ \E index_arr \in IndexArrs, additions \in {{}, {DynValue}} :
          lookup' = [called |-> TRUE, index_arr |-> index_arr, additions |-> additions, ret |-> get_index_types(array, index_arr, additions)]
    /\ UNCHANGED array
    /\ FrameA

NextArray == GetIndexTypes

SpecArray == InitArray /\ [][NextArray]_vars

-----------------------------------------------------------------------------
(* Claims about Array.get_index_types *)

\* The call was made with a non-slice index that evaluates to exactly one
\* int/str literal Instance with one argument.
SingleLiteralLookup ==
    /\ lookup.called
    /\ ~lookup.index_arr.is_none
    /\ ~IsSlicing(lookup.index_arr)
    /\ Len(FollowIndex(lookup.index_arr.stmts)) = 1
    /\ IsFixedIndex(FollowIndex(lookup.index_arr.stmts)[1])

LookupLiteral == FollowIndex(lookup.index_arr.stmts)[1].arg

\* The places of the stored keys whose source text is the literal.
MatchingKeys(lit) == {i \in DOMAIN array.keys : array.keys[i].ncommands = 1 /\ array.keys[i].has_code /\ lit.type = "str" /\ array.keys[i].code = lit.text}

FirstOf(S) == CHOOSE i \in S : \A j \in S : i <= j

\* C9: with such an index, when the literal is an in-range position of a
\* sequence literal, or equals the source text of a stored key of a mapping
\* literal, the call returns exactly the evaluated values of that one stored
\* element: not the union of all elements, nothing from the scanner.
C9_ExactLookup ==
    SingleLiteralLookup =>
        /\ (array.type \in {"list", "tuple"} /\ LookupLiteral.type = "int" /\ LookupLiteral.n >= 0 /\ LookupLiteral.n < Len(array.values))
              => lookup.ret = Returned("list", Range(array.values[LookupLiteral.n + 1]))
        /\ (array.type = DICT /\ MatchingKeys(LookupLiteral) # {})
              => lookup.ret = Returned("list", Range(array.values[FirstOf(MatchingKeys(LookupLiteral))]))

\* C10 as stated: on a mapping literal, a single literal index that equals
\* no stored key yields an empty result and no exception.
C10_MissingKeyEmpty ==
    (SingleLiteralLookup /\ array.type = DICT /\ MatchingKeys(LookupLiteral) = {})
    => lookup.ret.exc = "none" /\ lookup.ret.items = {}

\* C10 as amended: on a mapping literal, a single literal index that equals
\* no stored key yields the approximate result, the set of the evaluated
\* values of every stored element and of the scanner's additions; the
\* KeyError of the exact lookup never reaches the caller, and the one
\* exception that does is the AttributeError of a scanned single-command key
\* without source text.
C10_MissingKeyApproximate ==
    (SingleLiteralLookup /\ array.type = DICT /\ MatchingKeys(LookupLiteral) = {})
    => IF \E i \in DOMAIN array.keys : array.keys[i].ncommands = 1 /\ ~array.keys[i].has_code
       THEN lookup.ret = Raised("AttributeError")
       ELSE /\ lookup.ret.exc = "none"
            /\ lookup.ret.kind = "set"
            /\ \A v \in lookup.ret.items : v \in lookup.additions \/ \E i \in DOMAIN array.values : v \in Range(array.values[i])
            /\ \A i \in DOMAIN array.values : Range(array.values[i]) \subseteq lookup.ret.items
            /\ lookup.additions \subseteq lookup.ret.items

\* {'a': .., 'b': ..}['c'] with an addition found by the scanner: the union.
C10_Witness ==
    /\ lookup.called /\ lookup.index_arr # NoIndex
    /\ SingleLiteralLookup /\ array.type = DICT /\ Len(array.keys) = 2
    /\ array.keys[1].code = "a" /\ array.keys[2].code = "b"
    /\ array.keys[1].ncommands = 1 /\ array.keys[2].ncommands = 1
    /\ LookupLiteral = StrLit("c")
    /\ lookup.additions = {DynValue}
    /\ lookup.ret = Returned("set", Range(array.values[1]) \cup Range(array.values[2]) \cup {DynValue})

-----------------------------------------------------------------------------
(* Construction of wrappers *)

MaxConstructions == 2

WrapperKinds == {"Class", "Function", "Instance", "InstanceElement", "Execution", "Generator", "Array"}

\* The classes declared with use_metaclass(cache.CachedMetaClass, ...):
\* Instance, InstanceElement, Class, Function, Generator and Array.  Execution
\* is declared as a plain subclass of Executable.
UsesCachedMetaClassButGenerator(kind) == kind \in {"Class", "Function", "Instance", "InstanceElement", "Array"}

UsesCachedMetaClass(kind) == kind \in {"Class", "Function", "Instance", "InstanceElement", "Generator", "Array"}

\* The definitions wrapped, and the argument lists (for an InstanceElement:
\* the instances) a constructor may be given, by identity.
Definitions == {"d1", "d2"}

ArgLists == {"args1", "args2"}

NoArgs == "none"

\* The constructor calls of each kind:
\*   Class(base), Array(array)
\*   Function(func, is_decorated)
\*   Instance(base, var_args), Execution(base, var_args), Generator(func, var_args)
\*   InstanceElement(instance, var, is_class_var)
ConstructorCalls ==
    {[kind |-> k, def |-> d, args |-> NoArgs, flag |-> FALSE] : k \in {"Class", "Array"}, d \in Definitions}
    \cup {[kind |-> "Function", def |-> d, args |-> NoArgs, flag |-> f] : d \in Definitions, f \in BOOLEAN}
    \cup {[kind |-> k, def |-> d, args |-> a, flag |-> FALSE] : k \in {"Instance", "Execution", "Generator"}, d \in Definitions, a \in ArgLists}
    \cup {[kind |-> "InstanceElement", def |-> d, args |-> a, flag |-> f] : d \in Definitions, a \in ArgLists, f \in BOOLEAN}

\* CachedMetaClass.__call__ is memoized on the class and the constructor
\* arguments: the object made for them before, if any.
CacheHit(call) == {e \in cache_table : e.call = call}

InitCache ==
    /\ IdleP /\ IdleK /\ IdleA /\ IdleR /\ IdleC /\ IdleN /\ IdleD
    /\ objects = <<>>
    /\ cache_table = {}
    /\ constructed = <<>>

\* kind(...) for a class with the caching metaclass, first time: __init__
\* runs on a new object, which is entered in the table.
ConstructNew(call) ==
    /\ Len(constructed) < MaxConstructions
    /\ UsesCachedMetaClass(call.kind)
    /\ CacheHit(call) = {}
    /\ objects' = Append(objects, call)
    /\ cache_table' = cache_table \cup {[call |-> call, obj |-> Len(objects) + 1]}
    /\ constructed' = Append(constructed, [call |-> call, obj |-> Len(objects) + 1])
    /\ FrameW

\* The same constructor call again: the table's object, no __init__.
ConstructCached(call) ==
    /\ Len(constructed) < MaxConstructions
    /\ UsesCachedMetaClass(call.kind)
    /\ \E e \in CacheHit(call) : constructed' = Append(constructed, [call |-> call, obj |-> e.obj])
    /\ UNCHANGED <<objects, cache_table>>
    /\ FrameW

\* kind(...) for a class without the metaclass: always a new object.
ConstructPlain(call) ==
    /\ Len(constructed) < MaxConstructions
    /\ ~UsesCachedMetaClass(call.kind)
    /\ objects' = Append(objects, call)
    /\ constructed' = Append(constructed, [call |-> call, obj |-> Len(objects) + 1])
    /\ UNCHANGED cache_table
    /\ FrameW

NextCache == \E call \in ConstructorCalls : ConstructNew(call) \/ ConstructCached(call) \/ ConstructPlain(call)

SpecCache == InitCache /\ [][NextCache]_vars

\* The triple of the claim: the kind, the underlying definition and the
\* identity of the argument list.
Triple(call) == <<call.kind, call.def, call.args>>

\* All the arguments of the constructor call, is_decorated and is_class_var
\* included.
ConstructorArguments(call) == <<call.kind, call.def, call.args, call.flag>>

\* C7 as stated: two constructions of any kind with the same (kind,
\* definition, argument list) return the same object, and two that differ in
\* one of the three return different objects.
C7_IdentityCaching ==
    \A i, j \in DOMAIN constructed :
        (Triple(constructed[i].call) = Triple(constructed[j].call)) <=> (constructed[i].obj = constructed[j].obj)

\* C7 as amended: two constructions of a Class, Function, Instance,
\* InstanceElement, Generator or Array with the same constructor arguments
\* return the same object; every construction of an Execution returns a new
\* object, also for the same callable and argument list; and two
\* constructions that differ in kind, definition or any argument never
\* return the same object.
C7_IdentityCachingButExecution ==
    \A i, j \in DOMAIN constructed :
        /\ (constructed[i].obj = constructed[j].obj)
              => (ConstructorArguments(constructed[i].call) = ConstructorArguments(constructed[j].call))
        /\ (constructed[i].call.kind # "Execution"
              /\ ConstructorArguments(constructed[i].call) = ConstructorArguments(constructed[j].call))
              => constructed[i].obj = constructed[j].obj
        /\ (constructed[i].call.kind = "Execution" /\ i # j) => constructed[i].obj # constructed[j].obj

\* A Generator constructed twice for the same function and argument list,
\* and an Execution constructed twice for the same callable and argument list.
C7_Witness ==
    /\ Len(constructed) = 2
    /\ constructed[1].call = constructed[2].call
    /\ constructed[1].call.kind = "Generator"
    /\ constructed[1].obj = constructed[2].obj

-----------------------------------------------------------------------------
(* Execution.get_return_types *)

MaxReturns == 2

Funcs == {"f", "g"}

\* A return statement of a function, as the statement evaluator sees it:
\* None (copy_properties passes a None entry on), an expression that is
\* followed to one value, or a call of a function on an argument list.
NoReturn == [kind |-> "none", func |-> "", args |-> "", value |-> ""]

ValueReturn(v) == [kind |-> "value", func |-> "", args |-> "", value |-> v]

CallReturn(fn, a) == [kind |-> "call", func |-> fn, args |-> a, value |-> ""]

ReturnStmts ==
    {NoReturn, ValueReturn("v1")}
    \cup {CallReturn("f", a) : a \in ArgLists}
    \cup {CallReturn("g", "args1")}

\* The return statements of g: g returns a value and may call f back.
ReturnsOfG ==
    { <<ValueReturn("v2")>>,
      <<ValueReturn("v2"), CallReturn("f", "args1")>>,
      <<CallReturn("g", "args1"), CallReturn("f", "args2")>> }

\* The values of a result list.
TypeOf(v) == <<"type", v, "">>

\* docstrings.find_return_types(func): the types the docstring names.
DocstringTypes == {<<>>, <<TypeOf("doc")>>}

FunctionDef(doc, gen, rets) == [docstring |-> doc, is_generator |-> gen, returns |-> rets]

GeneratorOf(e) == <<"Generator", e.base, e.var_args>>

\* Execution(base, var_args): Executable.__init__ keeps both.
NewExecutionOf(fn, a) == [base |-> fn, var_args |-> a]

\* The key of the recursion guard: the callable and the argument list.
GuardKey(e) == <<e.base, e.var_args>>

\* The keys of the get_return_types calls in progress.
ActiveKeys == {GuardKey(executions[stack[i].exe]) : i \in DOMAIN stack}

NoResult == [calls |-> 0, stmts |-> <<>>]

\* Line 482 with line 481 replaced by an assignment: stmts = follow(r).
AddReturnOverwrite(stmts, r, followed) == IF r.kind = "none" THEN stmts ELSE followed

\* Lines 480-482: for r in self.returns: if r is not None: stmts += follow(r).
AddReturn(stmts, r, followed) == IF r.kind = "none" THEN stmts ELSE stmts \o followed

\* imports.strip_imports(stmts): no value of the model is an import name.
strip_imports(stmts) == stmts

\* The call in progress, its Execution and its function definition.
Top == stack[Len(stack)]

TopExecution == executions[Top.exe]

TopReturns == functions[TopExecution.base].returns

\* The frame of a call that starts _get_function_returns: line 479.
StartFrame(id, fn) == [exe |-> id, index |-> 1, stmts |-> functions[fn].docstring]

\* The top frame after the statement it was following has been followed.
Followed(values) == [Top EXCEPT !.index = @ + 1, !.stmts = AddReturn(@, TopReturns[Top.index], values)]

InitReturn ==
    /\ IdleP /\ IdleK /\ IdleA /\ IdleW /\ IdleC /\ IdleN /\ IdleD
    /\ \E rf \in SeqsUpTo(ReturnStmts, MaxReturns), rg \in ReturnsOfG, df \in DocstringTypes, gg \in BOOLEAN :
          functions = [fn \in Funcs |-> IF fn = "f" THEN FunctionDef(df, FALSE, rf) ELSE FunctionDef(<<>>, gg, rg)]
    /\ executions = <<>>
    /\ stack = <<>>
    /\ return_memo = {}
    /\ refused = {}
    /\ result = NoResult

\* The caller constructs Execution(f, args) and calls get_return_types() on
\* it: nothing is memoized, no call is in progress, f is not a generator.
CallGetReturnTypes(a) ==
    /\ executions = <<>>
    /\ executions' = <<NewExecutionOf("f", a)>>
    /\ stack' = <<StartFrame(1, "f")>>
    /\ UNCHANGED <<functions, return_memo, refused, result>>
    /\ FrameR

\* The caller calls get_return_types() on the same Execution again: the
\* memoized list.
GetReturnTypesMemoized ==
    /\ result.calls = 1
    /\ stack = <<>>
    /\ \E m \in return_memo : m.exe = 1 /\ result' = [calls |-> 2, stmts |-> m.stmts]
    /\ UNCHANGED <<functions, executions, stack, return_memo, refused>>
    /\ FrameR

\* for r in self.returns, r is None.
FollowNone ==
    /\ stack # <<>>
    /\ Top.index <= Len(TopReturns)
    /\ TopReturns[Top.index].kind = "none"
    /\ stack' = [stack EXCEPT ![Len(stack)] = Followed(<<>>)]
    /\ UNCHANGED <<functions, executions, return_memo, refused, result>>
    /\ FrameR

\* for r in self.returns, r is an expression without a call.
FollowValue ==
    /\ stack # <<>>
    /\ Top.index <= Len(TopReturns)
    /\ TopReturns[Top.index].kind = "value"
    /\ stack' = [stack EXCEPT ![Len(stack)] = Followed(<<TypeOf(TopReturns[Top.index].value)>>)]
    /\ UNCHANGED <<functions, executions, return_memo, refused, result>>
    /\ FrameR

\* r calls a function whose (callable, argument list) is already being
\* evaluated: a new Execution is made, the recursion guard answers for it
\* with the empty list, and nothing is evaluated.
FollowRecursiveCall ==
    /\ stack # <<>>
    /\ Top.index <= Len(TopReturns)
    /\ LET r == TopReturns[Top.index]
           e == NewExecutionOf(r.func, r.args)
       IN  /\ r.kind = "call"
           /\ GuardKey(e) \in ActiveKeys
           /\ executions' = Append(executions, e)
           /\ refused' = refused \cup {GuardKey(e)}
           /\ stack' = [stack EXCEPT ![Len(stack)] = Followed(<<>>)]
    /\ UNCHANGED <<functions, return_memo, result>>
    /\ FrameR

\* r calls a generator function: _get_function_returns returns the Generator
\* of the function and the argument list, and follows none of its returns.
FollowGeneratorCall ==
    /\ stack # <<>>
    /\ Top.index <= Len(TopReturns)
    /\ LET r == TopReturns[Top.index]
           e == NewExecutionOf(r.func, r.args)
       IN  /\ r.kind = "call"
           /\ GuardKey(e) \notin ActiveKeys
           /\ functions[r.func].is_generator
           /\ executions' = Append(executions, e)
           /\ return_memo' = return_memo \cup {[exe |-> Len(executions) + 1, stmts |-> strip_imports(<<GeneratorOf(e)>>)]}
           /\ stack' = [stack EXCEPT ![Len(stack)] = Followed(strip_imports(<<GeneratorOf(e)>>))]
    /\ UNCHANGED <<functions, refused, result>>
    /\ FrameR

\* r calls a function that is not being evaluated on this argument list:
\* its get_return_types starts.
FollowCall ==
    /\ stack # <<>>
    /\ Top.index <= Len(TopReturns)
    /\ LET r == TopReturns[Top.index]
           e == NewExecutionOf(r.func, r.args)
       IN  /\ r.kind = "call"
           /\ GuardKey(e) \notin ActiveKeys
           /\ ~functions[r.func].is_generator
           /\ executions' = Append(executions, e)
           /\ stack' = Append(stack, StartFrame(Len(executions) + 1, r.func))
    /\ UNCHANGED <<functions, return_memo, refused, result>>
    /\ FrameR

\* An inner get_return_types has followed all its returns: its list is
\* memoized and added to the list of the call that followed it.
ReturnToCall ==
    /\ Len(stack) > 1
    /\ Top.index > Len(TopReturns)
    /\ LET caller == stack[Len(stack) - 1]
           r == functions[executions[caller.exe].base].returns[caller.index]
       IN  stack' = [SubSeq(stack, 1, Len(stack) - 1) EXCEPT ![Len(stack) - 1] =
                        [caller EXCEPT !.index = @ + 1, !.stmts = AddReturn(@, r, strip_imports(Top.stmts))]]
    /\ return_memo' = return_memo \cup {[exe |-> Top.exe, stmts |-> strip_imports(Top.stmts)]}
    /\ UNCHANGED <<functions, executions, refused, result>>
    /\ FrameR

\* The caller's get_return_types has followed all its returns.
ReturnToCaller ==
    /\ Len(stack) = 1
    /\ Top.index > Len(TopReturns)
    /\ stack' = <<>>
    /\ return_memo' = return_memo \cup {[exe |-> Top.exe, stmts |-> strip_imports(Top.stmts)]}
    /\ result' = [calls |-> 1, stmts |-> strip_imports(Top.stmts)]
    /\ UNCHANGED <<functions, executions, refused>>
    /\ FrameR

NextReturn ==
    \/ \E a \in ArgLists : CallGetReturnTypes(a)
    \/ GetReturnTypesMemoized
    \/ FollowNone
    \/ FollowValue
    \/ FollowRecursiveCall
    \/ FollowGeneratorCall
    \/ FollowCall
    \/ ReturnToCall
    \/ ReturnToCaller

SpecReturn == InitReturn /\ [][NextReturn]_vars

\* The evaluation is one thread of control: a step that can be taken is taken.
FairSpecReturn == SpecReturn /\ WF_vars(NextReturn)

\* What the return statements give when every call of a (callable, argument
\* list) that is being evaluated counts for nothing: the docstring types,
\* then for each return statement in order its value, or the result of the
\* function it calls.
RECURSIVE NonRecursiveTypes(_, _, _)
RECURSIVE NonRecursiveBranches(_, _, _)
NonRecursiveBranches(rets, i, active) ==
    IF i > Len(rets) THEN <<>>
    ELSE LET r == rets[i]
             here == CASE r.kind = "none" -> <<>>
                       [] r.kind = "value" -> <<TypeOf(r.value)>>
                       [] OTHER -> IF <<r.func, r.args>> \in active THEN <<>>
                                   ELSE NonRecursiveTypes(r.func, r.args, active)
         IN  here \o NonRecursiveBranches(rets, i + 1, active)

NonRecursiveTypes(fn, a, active) ==
    IF functions[fn].is_generator THEN <<GeneratorOf(NewExecutionOf(fn, a))>>
    ELSE functions[fn].docstring \o NonRecursiveBranches(functions[fn].returns, 1, active \cup {<<fn, a>>})

\* C4: get_return_types on functions that call themselves or each other
\* finishes, every re-entrant call of a (callable, argument list) under
\* evaluation having returned the empty list without being evaluated, and
\* its result is what the non-recursive return branches give (after the
\* docstring types), possibly nothing.
C4_RecursionTerminates ==
    /\ <>(result.calls > 0)
    /\ [](result.calls > 0 =>
            result.stmts = NonRecursiveTypes(executions[1].base, executions[1].var_args, {}))
    /\ [](\A i, j \in DOMAIN stack :
            i # j => GuardKey(executions[stack[i].exe]) # GuardKey(executions[stack[j].exe]))

\* f(args) has finished although its evaluation came back to f on the same
\* argument list, directly and through g, and a branch gave a value.
C4_Witness ==
    /\ result.calls > 0
    /\ GuardKey(executions[1]) \in refused
    /\ \E i \in DOMAIN executions : executions[i].base = "g"
    /\ TypeOf("v1") \in Range(result.stmts)

-----------------------------------------------------------------------------
(* Execution.copy_properties and Execution._scope_copy *)

MaxNesting == 2

MaxAccesses == 3

Props == {"returns", "asserts", "statements", "subscopes"}

\* The two Executions of the function.
Executions == {1, 2}

\* A reference held in a node's parent attribute: nothing, a parser node, or
\* an Execution.
NoRef == [exe |-> 0, node |-> 0]

NodeRef(n) == [exe |-> 0, node |-> n]

ExecutionRef(e) == [exe |-> e, node |-> 0]

\* A parser node; orig is 0 for a node of the parser's tree and names the
\* node copied for a copy.
Node(kind, parent, pos) == [kind |-> kind, parent |-> parent, start_pos |-> pos, orig |-> 0]

FunctionNode == 2

\* The parser's tree: a module (node 1) holding the function (node 2), d
\* flows (if ...) nested in each other inside the function, a return and an
\* assert in the innermost flow, a statement and a nested function at the
\* function's top level, and the nested function's own return.
DefinitionTree(d) ==
    <<Node("module", NoRef, 1), Node("function", NodeRef(1), 2)>>
    \o [k \in 1..d |-> Node("flow", NodeRef(k + 1), k + 2)]
    \o <<Node("return", NodeRef(d + 2), d + 3),
         Node("assert", NodeRef(d + 2), d + 4),
         Node("statement", NodeRef(2), d + 5),
         Node("function", NodeRef(2), d + 6),
         Node("return", NodeRef(d + 6), d + 7)>>

\* The function's lists; 0 stands for a None entry; the outermost flow is
\* one of the function's statements.
Attributes(d, with_none) ==
    [returns |-> (IF with_none THEN <<0>> ELSE <<>>) \o <<d + 3>>,
     asserts |-> <<d + 4>>,
     statements |-> (IF d > 0 THEN <<3>> ELSE <<>>) \o <<d + 5>>,
     subscopes |-> <<d + 6>>]

RECURSIVE IsUnder(_, _, _)
IsUnder(h, n, root) == n = root \/ (h[n].parent.node # 0 /\ IsUnder(h, h[n].parent.node, root))

\* The parser's nodes at and below root.
Subtree(h, root) == {n \in DOMAIN h : h[n].orig = 0 /\ IsUnder(h, n, root)}

\* helpers.fast_parent_copy(obj): new nodes for obj and everything below it;
\* the parents of the nodes below are the new nodes, the parent of the copy
\* of obj is still obj's parent.  The copy of obj is node Len(h) + 1.
fast_parent_copy(h, root) ==
    LET sub == Subtree(h, root)
        NewId(n) == Len(h) + Cardinality({x \in sub : x <= n})
        CopyOf(n) == [h[n] EXCEPT !.orig = n, !.parent = IF n = root THEN @ ELSE NodeRef(NewId(@.node))]
        Nth(i) == CHOOSE n \in sub : Cardinality({x \in sub : x <= n}) = i
    IN  h \o [i \in 1..Cardinality(sub) |-> CopyOf(Nth(i))]

\* _scope_copy(self, scope), memoized per Execution and scope: the Execution
\* itself for the scope that starts where the function starts, else a copy
\* of the scope whose parent is the copy of the scope's parent.
RECURSIVE _scope_copy(_, _, _)
_scope_copy(st, e, scope) ==
    IF \E m \in st.memo : m.exe = e /\ m.scope = scope
    THEN [heap |-> st.heap, memo |-> st.memo,
          ref |-> (CHOOSE m \in st.memo : m.exe = e /\ m.scope = scope).ref]
    ELSE IF st.heap[scope].start_pos = st.heap[FunctionNode].start_pos
    THEN [heap |-> st.heap,
          memo |-> st.memo \cup {[exe |-> e, scope |-> scope, ref |-> ExecutionRef(e)]},
          ref |-> ExecutionRef(e)]
    ELSE LET copied == Len(st.heap) + 1
             h1 == fast_parent_copy(st.heap, scope)
             up == _scope_copy([heap |-> h1, memo |-> st.memo], e, h1[copied].parent.node)
         IN  [heap |-> [up.heap EXCEPT ![copied].parent = up.ref],
              memo |-> up.memo \cup {[exe |-> e, scope |-> scope, ref |-> NodeRef(copied)]},
              ref |-> NodeRef(copied)]

\* copy_properties without line 687: copied.parent is left as it was.
KeepParent(old, scope_copy) == old

\* Line 687: copied.parent = self._scope_copy(copied.parent).
NewParent(old, scope_copy) == scope_copy

\* An entry of a copied list: None, a copied node, or (line 689) the Function
\* wrapper of a copied function definition.
NoneEntry == [node |-> 0, wrapped |-> FALSE]

Entry(h, copied) == [node |-> copied, wrapped |-> h[copied].kind = "function"]

\* The loop of copy_properties from element i of the list on.
RECURSIVE CopyElements(_, _, _, _)
CopyElements(st, e, attr, i) ==
    IF i > Len(attr) THEN [heap |-> st.heap, memo |-> st.memo, objects |-> <<>>]
    ELSE IF attr[i] = 0
    THEN LET rest == CopyElements(st, e, attr, i + 1)
         IN  [rest EXCEPT !.objects = <<NoneEntry>> \o @]
    ELSE LET copied == Len(st.heap) + 1
             h1 == fast_parent_copy(st.heap, attr[i])
             sc == _scope_copy([heap |-> h1, memo |-> st.memo], e, h1[copied].parent.node)
             h2 == [sc.heap EXCEPT ![copied].parent = NewParent(@, sc.ref)]
             rest == CopyElements([heap |-> h2, memo |-> sc.memo], e, attr, i + 1)
         IN  [rest EXCEPT !.objects = <<Entry(h2, copied)>> \o @]

copy_properties(e, prop) == CopyElements([heap |-> heap, memo |-> scope_memo], e, attrs[prop], 1)

Accesses == Cardinality(copies) + Cardinality(own_params)

InitCopy ==
    /\ IdleP /\ IdleK /\ IdleA /\ IdleW /\ IdleR /\ IdleN /\ IdleD
    /\ \E d \in 0..MaxNesting, with_none \in BOOLEAN :
          /\ heap = DefinitionTree(d)
          /\ attrs = Attributes(d, with_none)
    /\ callers \in [Executions -> ArgLists]
    /\ copies = {}
    /\ scope_memo = {}
    /\ own_params = {}

\* e.returns, e.asserts, e.statements or e.subscopes, first access.
Access(e, prop) ==
    /\ Accesses < MaxAccesses
    /\ ~\E c \in copies : c.exe = e /\ c.prop = prop
    /\ LET r == copy_properties(e, prop)
       IN  /\ heap' = r.heap
           /\ scope_memo' = r.memo
           /\ copies' = copies \cup {[exe |-> e, prop |-> prop, objects |-> r.objects]}
    /\ UNCHANGED <<attrs, callers, own_params>>
    /\ FrameC

\* The same property of the same Execution again: the memoized list.
AccessMemoized(e, prop) ==
    /\ \E c \in copies : c.exe = e /\ c.prop = prop
    /\ UNCHANGED vars

\* e.get_params(): the parameters own_params to e's own argument list.
GetOwnParams(e) ==
    /\ Accesses < MaxAccesses
    /\ ~\E b \in own_params : b.exe = e
    /\ own_params' = own_params \cup {[exe |-> e, var_args |-> callers[e]]}
    /\ UNCHANGED <<heap, attrs, callers, copies, scope_memo>>
    /\ FrameC

NextCopy ==
    \/ \E e \in Executions, prop \in Props : Access(e, prop)
    \/ \E e \in Executions, prop \in Props : AccessMemoized(e, prop)
    \/ \E e \in Executions : GetOwnParams(e)

SpecCopy == InitCopy /\ [][NextCopy]_vars

\* The end of the owner chain of a copy: the Execution it leads to, or the
\* node of the parser's tree (or the nothing) it runs into.
RECURSIVE Owner(_)
Owner(n) ==
    LET p == heap[n].parent
    IN  IF p.node = 0 \/ heap[p.node].orig = 0 THEN p ELSE Owner(p.node)

\* The nodes in the copied lists of an Execution.
CopiedNodes(e) ==
    UNION {{c.objects[i].node : i \in DOMAIN c.objects} : c \in {x \in copies : x.exe = e}} \ {0}

\* C5: for two Executions of the function on different argument lists, after
\* any accesses to returns, asserts, statements, subscopes and get_params:
\* every copied element is a new node whose owner chain leads to its own
\* Execution, so does every other copy made (never a node of the parser's
\* tree), the two Executions have no copied node in common, the parser's
\* tree still points only into itself, and the parameters found at the end
\* of a copy's owner chain are own_params to its own Execution's argument list.
C5_NoSharing ==
    \A e1, e2 \in Executions :
        (e1 # e2 /\ callers[e1] # callers[e2]) =>
            /\ \A n \in CopiedNodes(e1) : heap[n].orig # 0 /\ Owner(n) = ExecutionRef(e1)
            /\ CopiedNodes(e1) \cap CopiedNodes(e2) = {}
            /\ \A n \in DOMAIN heap : heap[n].orig # 0 => Owner(n).exe # 0
            /\ \A n \in DOMAIN heap : heap[n].orig = 0 =>
                  heap[n].parent.exe = 0 /\ (heap[n].parent.node = 0 \/ heap[heap[n].parent.node].orig = 0)
            /\ \A n \in CopiedNodes(e1), b \in own_params :
                  b.exe = Owner(n).exe => b.var_args = callers[e1]

\* Both Executions, on different argument lists, have copied the returns, the
\* return lies in a flow, and get_params has been called on one of them.
C5_Witness ==
    /\ callers[1] # callers[2]
    /\ heap[3].kind = "flow"
    /\ \A e \in Executions : \E c \in copies : c.exe = e /\ c.prop = "returns"
    /\ own_params # {}

-----------------------------------------------------------------------------
(* The names of a class and of its instances *)

\* A subscope of a class body: a nested class or a function; self_name is
\* get_func_self_name (None without parameters), set_vars the name paths
\* sub.get_set_vars() gives.
Subscope(kind, name, self_name, set_vars) == [kind |-> kind, name |-> name, self_name |-> self_name, set_vars |-> set_vars]

MethodF == Subscope("function", "f", "self", << <<"self", "x">>, <<"self", "x", "y">>, <<"other", "z">>, <<"w">> >>)

MethodInit == Subscope("function", "__init__", "self", << <<"self", "i">> >>)

MethodNoParams == Subscope("function", "g", None, << <<"self", "n">> >>)

NestedClass == Subscope("class", "Inner", None, << <<"self", "c">> >>)

SubscopeShapes == {<<>>, <<MethodInit, MethodF>>, <<NestedClass, MethodNoParams, MethodF>>}

\* What one superclass expression of class A may evaluate to here.
SuperClassValues == {<<ClassValue("A")>>, <<ClassValue("B")>>, <<ClassValue(ObjectName)>>}

\* A name of a class body (pr.Class.get_defined_names), by its final segment
\* and the class that declares it.
DeclaredName(c, n) == [name |-> n, cls |-> c]

\* InstanceElement(instance, var, is_class_var)
InstanceElementOf(c, var, flag) == [instance |-> c, name |-> var.name, cls |-> var.cls, is_class_var |-> flag]

\* Line 146 with is_class_var left at its default.
WrapClassNameUnflagged(c, var) == InstanceElementOf(c, var, FALSE)

\* Lines 146 and 158: InstanceElement(self, var, True).
WrapClassName(c, var) == InstanceElementOf(c, var, TRUE)

Returns(names) == [called |-> TRUE, raised |-> "", value |-> names]

Raises(exc) == [called |-> TRUE, raised |-> exc, value |-> <<>>]

NotCalled == [called |-> FALSE, raised |-> "", value |-> <<>>]

\* Python's recursion limit, scaled down: a call chain of get_self_properties
\* longer than the number of classes holds one class twice and never ends
\* by itself.
RecursionLimit == Cardinality(AllClassNames)

\* The names one subscope adds: for a function with a first parameter, the
\* names of its get_set_vars (for __init__: of its Execution, whose
\* get_defined_names puts the parameters first) that have two segments, the
\* first being the self name; add_self_dot_name drops the first segment.
SelfDotNames(c, sub) ==
    LET vars_of == IF sub.name = "__init__" THEN << <<sub.self_name>> >> \o sub.set_vars ELSE sub.set_vars
        IsSelfDot(n) == n[1] = sub.self_name /\ Len(n) = 2
        picked == SelectSeq(vars_of, IsSelfDot)
    IN  IF sub.kind = "class" \/ sub.self_name = None THEN <<>>
        ELSE [k \in DOMAIN picked |-> InstanceElementOf(c, DeclaredName(c, picked[k][2]), FALSE)]

RECURSIVE OwnSelfNames(_, _)
OwnSelfNames(c, subs) ==
    IF subs = <<>> THEN <<>> ELSE SelfDotNames(c, Head(subs)) \o OwnSelfNames(c, Tail(subs))

\* Instance(c).get_self_properties(), depth calls deep; SuperSelfNames is its
\* loop over self.base.get_super_classes() from the i-th superclass on.
RECURSIVE get_self_properties(_, _)
RECURSIVE SuperSelfNames(_, _, _, _)
SuperSelfNames(c, supers, i, depth) ==
    IF i > Len(supers) THEN Returns(<<>>)
    ELSE IF supers[i].base = c THEN SuperSelfNames(c, supers, i + 1, depth)
    ELSE LET first == get_self_properties(supers[i].base, depth + 1)
             rest == SuperSelfNames(c, supers, i + 1, depth)
         IN  IF first.raised # "" THEN first
             ELSE IF rest.raised # "" THEN rest
             ELSE Returns(first.value \o rest.value)

get_self_properties(c, depth) ==
    IF depth > RecursionLimit THEN Raises("RuntimeError")
    ELSE LET inherited == SuperSelfNames(c, get_super_classes(classes[c]), 1, depth)
         IN  IF inherited.raised # "" THEN inherited
             ELSE Returns(OwnSelfNames(c, members[c].subscopes) \o inherited.value)

\* in_iterable(name, iterable): the final segments are compared.
in_iterable(name, iterable) == \E k \in DOMAIN iterable : iterable[k].name = name.name

\* Class(c).get_defined_names(): the class's own names, then the names of
\* each superclass that have no namesake among the own names.  A class whose
\* get_defined_names is in progress answers with the memoize default [].
RECURSIVE get_defined_names(_, _)
RECURSIVE InheritedNames(_, _, _, _)
InheritedNames(own, supers, i, active) ==
    IF i > Len(supers) THEN <<>>
    ELSE LET cls == supers[i].base
             theirs == IF cls \in active THEN <<>> ELSE get_defined_names(cls, active \cup {cls})
             NotOwn(n) == ~in_iterable(n, own)
         IN  SelectSeq(theirs, NotOwn) \o InheritedNames(own, supers, i + 1, active)

get_defined_names(c, active) ==
    LET own == [k \in DOMAIN members[c].own |-> DeclaredName(c, members[c].own[k])]
    IN  own \o InheritedNames(own, get_super_classes(classes[c]), 1, active)

\* The class-level names of an instance of c, each wrapped for the instance.
ClassLevelNames(c) ==
    LET class_names == get_defined_names(c, {c})
    IN  [k \in DOMAIN class_names |-> WrapClassName(c, class_names[k])]

\* Instance(c).get_defined_names()
instance_get_defined_names(c) ==
    LET names == get_self_properties(c, 1)
    IN  IF names.raised # "" THEN names ELSE Returns(names.value \o ClassLevelNames(c))

\* Instance(c).scope_generator(), run to its end: the two lists it yields.
scope_generator(c) ==
    LET names == get_self_properties(c, 1)
    IN  IF names.raised # "" THEN names ELSE Returns(<<names.value, ClassLevelNames(c)>>)

InitNames ==
    /\ IdleP /\ IdleA /\ IdleW /\ IdleR /\ IdleC /\ IdleD
    /\ \E sa \in SeqsUpTo(SuperClassValues, MaxSupers), sb \in {<<>>, <<<<ClassValue("A")>>>>, <<<<ClassValue("B")>>>>} :
          classes = [c \in AllClassNames |-> CASE c = "A" -> ClassDef(sa, FALSE) [] c = "B" -> ClassDef(sb, FALSE) [] OTHER -> ObjectDef]
    /\ super_memo = [c \in AllClassNames |-> NotCached]
    /\ \E oa \in {<<"x">>, <<"x", "o">>}, ob \in {<<"x">>, <<"z">>}, ua \in SubscopeShapes :
          members = [c \in AllClassNames |->
                        CASE c = "A" -> [own |-> oa, subscopes |-> ua]
                          [] c = "B" -> [own |-> ob, subscopes |-> <<MethodF>>]
                          [] OTHER -> [own |-> <<"o">>, subscopes |-> <<>>]]
    /\ \E c \in ClassNames :
          names_call = [receiver |-> c, self_properties |-> NotCalled, class_names |-> NotCalled,
                        instance_names |-> NotCalled, scopes |-> NotCalled]

\* Instance(receiver).get_self_properties()
GetSelfProperties ==
    /\ ~names_call.self_properties.called
    /\ names_call' = [names_call EXCEPT !.self_properties = get_self_properties(names_call.receiver, 1)]
    /\ UNCHANGED members
    /\ FrameN

\* Class(receiver).get_defined_names()
ClassGetDefinedNames ==
    /\ ~names_call.class_names.called
    /\ names_call' = [names_call EXCEPT !.class_names = Returns(get_defined_names(names_call.receiver, {names_call.receiver}))]
    /\ UNCHANGED members
    /\ FrameN

\* Instance(receiver).get_defined_names()
InstanceGetDefinedNames ==
    /\ ~names_call.instance_names.called
    /\ names_call' = [names_call EXCEPT !.instance_names = instance_get_defined_names(names_call.receiver)]
    /\ UNCHANGED members
    /\ FrameN

\* list(Instance(receiver).scope_generator())
ScopeGenerator ==
    /\ ~names_call.scopes.called
    /\ names_call' = [names_call EXCEPT !.scopes = scope_generator(names_call.receiver)]
    /\ UNCHANGED members
    /\ FrameN

NextNames == GetSelfProperties \/ ClassGetDefinedNames \/ InstanceGetDefinedNames \/ ScopeGenerator

SpecNames == InitNames /\ [][NextNames]_vars

\* C13: the list of Instance.get_defined_names is the self-assigned names
\* followed by the class-level names, each class-level name wrapped as a
\* class member of this instance, and it equals the first list of
\* scope_generator followed by the second, which are split the same way.
C13_InstanceNamePriority ==
    LET r == names_call.instance_names
        g == names_call.scopes
    IN  /\ (r.called /\ r.raised = "") =>
              \E k \in 0..Len(r.value) :
                  /\ \A i \in 1..k : ~r.value[i].is_class_var
                  /\ \A i \in (k + 1)..Len(r.value) :
                        r.value[i].is_class_var /\ r.value[i].instance = names_call.receiver
                  /\ Len(r.value) - k = Len(get_defined_names(names_call.receiver, {names_call.receiver}))
        /\ (g.called /\ g.raised = "") =>
              /\ \A i \in DOMAIN g.value[1] : ~g.value[1][i].is_class_var
              /\ \A i \in DOMAIN g.value[2] :
                    g.value[2][i].is_class_var /\ g.value[2][i].instance = names_call.receiver
        /\ (r.called /\ r.raised = "" /\ g.called /\ g.raised = "") => r.value = g.value[1] \o g.value[2]

\* An instance with self-assigned and class-level names, asked both ways.
C13_Witness ==
    /\ names_call.instance_names.called /\ names_call.scopes.called
    /\ names_call.scopes.raised = ""
    /\ Len(names_call.scopes.value[1]) > 1 /\ Len(names_call.scopes.value[2]) > 1

\* C17: the result of Class.get_defined_names starts with the class's own
\* declared names in order, the rest being inherited names, and no inherited
\* name has the final segment of another name of the result.
C17_DefinedNamesMerge ==
    LET r == names_call.class_names
        own == members[names_call.receiver].own
    IN  r.called =>
            /\ Len(r.value) >= Len(own)
            /\ \A k \in DOMAIN own : r.value[k] = DeclaredName(names_call.receiver, own[k])
            /\ \A i \in DOMAIN r.value : \A j \in DOMAIN r.value :
                  (i > Len(own) /\ i # j) => r.value[i].name # r.value[j].name

\* C19: Instance.get_self_properties returns on every class hierarchy, also
\* on one in which a class is its own superclass directly or through other
\* classes, and it returns the self-assigned names of the class first.
C19_SelfPropertiesTerminates ==
    LET r == names_call.self_properties
        own == OwnSelfNames(names_call.receiver, members[names_call.receiver].subscopes)
    IN  r.called =>
            /\ r.raised = ""
            /\ SubSeq(r.value, 1, Len(own)) = own

-----------------------------------------------------------------------------
(* Function.get_decorated_func, and get_return_types on a decorated function *)

MaxDecorators == 2
MaxQueries == 2

\* The values of this section: a callable (a definition `def`, seen raw as
\* the parser's pr.Function when core is "pr", through Function(def) when
\* core is "er", or a class when core is "class", inside `layers` wrappers
\* Function(..., is_decorated=True)), None, a type, or a Generator of a
\* callable and an argument list.
CallableValue(d, c, n) == [kind |-> "callable", def |-> d, core |-> c, layers |-> n, args |-> ""]

NoneValue == [kind |-> "None", def |-> "", core |-> "", layers |-> 0, args |-> ""]

TypeValue(v) == [kind |-> "type", def |-> v, core |-> "", layers |-> 0, args |-> ""]

\* Generator(func, var_args): lines 747-750.
GeneratorValue(func, a) == [func EXCEPT !.kind = "Generator", !.args = a]

\* Generator.func of a Generator value.
FuncOf(g) == [g EXCEPT !.kind = "callable", !.args = ""]

\* The parser's pr.Function of a definition.
PrFunction(d) == CallableValue(d, "pr", 0)

\* Function(func): line 308 with is_decorated=False, on a pr.Function.
Function(f) == [f EXCEPT !.core = "er"]

\* Function(f, is_decorated=True): line 336.
OldFunc(f) == [f EXCEPT !.layers = @ + 1]

\* self.is_decorated and self.base_func of a Function wrapper: lines 310-311.
is_decorated(self) == self.layers > 0

base_func(self) == IF self.layers > 0 THEN [self EXCEPT !.layers = @ - 1] ELSE [self EXCEPT !.core = "pr"]

\* The decorator functions of the analysed program, by what their body
\* returns when called on one argument: the argument, a nested function
\* (already wrapped by the evaluator, or raw), a class, nothing, or both a
\* nested function and the argument.
DecoratorKinds == {"identity", "wrapping", "raw", "klass", "nothing", "both"}

\* evaluate.follow_statement(dec): the candidates of a decorator expression.
CandidateLists ==
    { <<>>, <<"identity">>, <<"wrapping">>, <<"raw">>, <<"klass">>, <<"nothing">>,
      <<"both">>, <<"wrapping", "identity">>, <<"identity", "wrapping">> }

\* Execution(decorator, var_args).get_return_types() of line 338: what the
\* body of the decorator returns, its parameter being bound to var_args[1].
DecoratorReturns(decorator, var_args) ==
    CASE decorator = "identity" -> <<var_args[1]>>
      [] decorator = "wrapping" -> <<Function(PrFunction("w"))>>
      [] decorator = "raw" -> <<PrFunction("w")>>
      [] decorator = "klass" -> <<CallableValue("K", "class", 0)>>
      [] decorator = "both" -> <<Function(PrFunction("w")), var_args[1]>>
      [] OTHER -> <<>>

\* The return statements of F: it may call itself on either argument list.
ReturnsOfF ==
    { <<ValueReturn("v1")>>,
      <<NoReturn, ValueReturn("v1"), CallReturn("F", "args1")>>,
      <<CallReturn("F", "args2"), ValueReturn("v1")>> }

\* The attributes of the definitions F (the decorated function) and w (the
\* function nested in a decorator), read through Function.__getattr__.
DecoratorsOf(d) == IF d = "F" THEN fdef.decorators ELSE <<>>

IsGeneratorDef(d) == IF d = "F" THEN fdef.gen ELSE fdef.wgen

ReturnsOfDef(d) == IF d = "F" THEN fdef.returns ELSE <<ValueReturn("v2")>>

\* docstrings.find_return_types(func).
HintTypes(d) == IF d = "F" THEN <<TypeValue("doc")>> ELSE <<TypeValue("wdoc")>>

\* Line 334 with pop(0): the first candidate.
FirstCandidate(dec_results) == dec_results[1]

\* Line 334: decorator = dec_results.pop().
ChosenCandidate(dec_results) == dec_results[Len(dec_results)]

\* Lines 324-346: the loop over reversed(self.base_func.decorators), from
\* decorator i down to the first; f is the current target, log the calls of
\* decorators made so far.
RECURSIVE ApplyDecorators(_, _, _, _)
ApplyDecorators(decs, i, f, log) ==
    IF i = 0 THEN [value |-> f, log |-> log]
    ELSE LET dec_results == decs[i]
         IN  IF Len(dec_results) = 0 THEN [value |-> NoneValue, log |-> log]
             ELSE LET decorator == ChosenCandidate(dec_results)
                      old_func == OldFunc(f)
                      wrappers == DecoratorReturns(decorator, <<old_func>>)
                      entry == [dec |-> i, decorator |-> decorator, var_args |-> <<old_func>>, wrappers |-> wrappers]
                  IN  IF Len(wrappers) = 0 THEN [value |-> NoneValue, log |-> Append(log, entry)]
                      ELSE ApplyDecorators(decs, i - 1, wrappers[1], Append(log, entry))

\* Function._decorated_func, lines 315-351.
decorated_func(self) ==
    LET decs == DecoratorsOf(self.def)
        r == IF is_decorated(self) THEN [value |-> base_func(self), log |-> <<>>]
             ELSE ApplyDecorators(decs, Len(decs), base_func(self), <<>>)
        f == r.value
    IN  [r EXCEPT !.value = IF f # base_func(self) /\ f.kind = "callable" /\ f.core = "pr" /\ f.layers = 0
                            THEN Function(f) ELSE f]

\* Function.get_decorated_func, lines 353-358.
get_decorated_func(self) ==
    LET r == decorated_func(self)
    IN  IF r.value = NoneValue THEN [raised |-> "DecoratorNotFound", value |-> NoneValue, log |-> r.log]
        ELSE IF r.value = base_func(self) THEN [raised |-> "", value |-> self, log |-> r.log]
        ELSE [raised |-> "", value |-> r.value, log |-> r.log]

\* memoize_default on _decorated_func: the decorators of a Function wrapper
\* are called the first time only.
NewApplications(self) ==
    IF \E i \in DOMAIN applications : applications[i].self = self THEN <<>>
    ELSE LET log == get_decorated_func(self).log
         IN  [i \in DOMAIN log |-> [self |-> self, dec |-> log[i].dec, decorator |-> log[i].decorator,
                                    var_args |-> log[i].var_args, wrappers |-> log[i].wrappers]]

\* Line 476 without the test of evaluate_generator.
WrapsAlways(func, evaluate_generator) == IsGeneratorDef(func.def)

\* Line 476: func.is_generator and not evaluate_generator.
WrapsInGenerator(func, evaluate_generator) == IsGeneratorDef(func.def) /\ ~evaluate_generator

Outcome(r, s, n) == [raised |-> r, stmts |-> s, followed |-> n]

\* Execution(base, a).get_return_types(evaluate_generator) on a Function
\* wrapper, lines 398-483: the else branch of line 463, since Function
\* forwards `returns` to the definition.  The calls in the return statements
\* are calls of base; the recursion guard answers a (callable, argument
\* list) under evaluation with the empty list.
RECURSIVE get_return_types(_, _, _, _)
RECURSIVE FollowReturns(_, _, _, _)
FollowReturns(rets, i, base, active) ==
    IF i > Len(rets) THEN <<>>
    ELSE LET r == rets[i]
             here == CASE r.kind = "none" -> <<>>
                       [] r.kind = "value" -> <<TypeValue(r.value)>>
                       [] OTHER -> IF <<base, r.args>> \in active THEN <<>>
                                   ELSE get_return_types(base, r.args, FALSE, active).stmts
         IN  here \o FollowReturns(rets, i + 1, base, active)

get_return_types(base, a, evaluate_generator, active) ==
    LET d == get_decorated_func(base)
        func == d.value
        rets == ReturnsOfDef(base.def)
    IN  IF d.raised # "" THEN Outcome(d.raised, <<>>, 0)
        ELSE IF func.core = "class" THEN Outcome("AttributeError", <<>>, 0)
        ELSE IF WrapsInGenerator(func, evaluate_generator)
             THEN Outcome("", strip_imports(<<GeneratorValue(func, a)>>), 0)
        ELSE Outcome("", strip_imports(HintTypes(func.def) \o FollowReturns(rets, 1, base, active \cup {<<base, a>>})),
                     Cardinality({i \in DOMAIN rets : rets[i].kind # "none"}))

\* Generator.iter_content, lines 769-771.
iter_content(g) == get_return_types(FuncOf(g), g.args, TRUE, {})

TheFunction == Function(PrFunction("F"))

InitDecorated ==
    /\ IdleP /\ IdleK /\ IdleA /\ IdleW /\ IdleR /\ IdleC /\ IdleN
    /\ \E ds \in SeqsUpTo(CandidateLists, MaxDecorators), g \in BOOLEAN, wg \in BOOLEAN, rs \in ReturnsOfF :
          fdef = [decorators |-> ds, gen |-> g, wgen |-> wg, returns |-> rs]
    /\ applications = <<>>
    /\ resolved = <<>>
    /\ queries = <<>>
    /\ content = <<>>

\* The caller calls get_decorated_func() on Function(F), or on the wrapper
\* Function(F, is_decorated=True).
GetDecoratedFunc(flag) ==
    /\ resolved = <<>>
    /\ LET self == IF flag THEN OldFunc(PrFunction("F")) ELSE TheFunction
           r == get_decorated_func(self)
       IN  /\ resolved' = [self |-> self, raised |-> r.raised, value |-> r.value,
                           evaluated |-> Len(NewApplications(self))]
           /\ applications' = applications \o NewApplications(self)
    /\ UNCHANGED <<fdef, queries, content>>
    /\ FrameD

\* The caller constructs Execution(Function(F), a) and calls
\* get_return_types() on it.
GetReturnTypes(a) ==
    /\ Len(queries) < MaxQueries
    /\ LET r == get_return_types(TheFunction, a, FALSE, {})
       IN  queries' = Append(queries, [var_args |-> a, raised |-> r.raised, stmts |-> r.stmts, followed |-> r.followed])
    /\ applications' = applications \o NewApplications(TheFunction)
    /\ UNCHANGED <<fdef, resolved, content>>
    /\ FrameD

\* The caller calls iter_content() on the Generator the last query returned.
IterContent ==
    /\ content = <<>>
    /\ queries # <<>>
    /\ LET q == queries[Len(queries)]
       IN  /\ q.raised = ""
           /\ Len(q.stmts) = 1
           /\ q.stmts[1].kind = "Generator"
           /\ LET r == iter_content(q.stmts[1])
              IN  content' = [of |-> q.stmts[1], raised |-> r.raised, stmts |-> r.stmts, followed |-> r.followed]
    /\ UNCHANGED <<fdef, applications, resolved, queries>>
    /\ FrameD

NextDecorated ==
    \/ \E flag \in BOOLEAN : GetDecoratedFunc(flag)
    \/ \E a \in ArgLists : GetReturnTypes(a)
    \/ IterContent

SpecDecorated == InitDecorated /\ [][NextDecorated]_vars

-----------------------------------------------------------------------------
(* Claims about decorators and generators *)

\* The decorator chain of F cannot be resolved: an expression without
\* candidates, or a decorator call that returned nothing.
Unresolvable ==
    \/ \E i \in DOMAIN fdef.decorators : fdef.decorators[i] = <<>>
    \/ \E k \in DOMAIN applications : applications[k].wrappers = <<>>

\* The target of the k-th decorator call: the definition itself, then the
\* first value the call before returned.
TargetOf(k) == IF k = 1 THEN PrFunction("F") ELSE applications[k - 1].wrappers[1]

\* C11 as stated: for every generator-shaped function F and argument list A,
\* get_return_types() without content mode returns exactly one Generator of
\* (F, A) and follows no return statement, and iter_content() of that
\* Generator returns the hint types and the followed return values, without
\* a Generator of the same function and argument list.
C11_GeneratorUnwrapping ==
    /\ \A i \in DOMAIN queries :
          fdef.gen =>
             /\ queries[i].raised = ""
             /\ Len(queries[i].stmts) = 1
             /\ queries[i].stmts[1].kind = "Generator"
             /\ queries[i].stmts[1].def = "F"
             /\ queries[i].stmts[1].args = queries[i].var_args
             /\ queries[i].followed = 0
    /\ content # <<>> => content.raised = "" /\ content.of \notin Range(content.stmts)

\* C11, for the function the decorators resolve to: when the decorator chain
\* of F resolves to a generator-shaped function T (F itself when it has no
\* decorators), get_return_types() without content mode returns exactly the
\* Generator of (T, A) and follows no return statement; iter_content() of
\* that Generator returns the hint types of T, then what the return
\* statements of T give, every non-None statement being followed, and no
\* Generator of the same (T, A).
C11_GeneratorUnwrappingOfTarget ==
    /\ \A i \in DOMAIN queries :
          LET d == get_decorated_func(TheFunction)
          IN  (d.raised = "" /\ d.value.core # "class" /\ IsGeneratorDef(d.value.def)) =>
                 /\ queries[i].raised = ""
                 /\ queries[i].stmts = <<GeneratorValue(d.value, queries[i].var_args)>>
                 /\ queries[i].followed = 0
    /\ content # <<>> =>
          LET rets == ReturnsOfDef(content.of.def)
              hints == HintTypes(content.of.def)
          IN  /\ content.raised = ""
              /\ content.of \notin Range(content.stmts)
              /\ SubSeq(content.stmts, 1, Len(hints)) = hints
              /\ \A j \in DOMAIN rets : rets[j].kind = "value" => TypeValue(rets[j].value) \in Range(content.stmts)
              /\ content.followed = Cardinality({j \in DOMAIN rets : rets[j].kind # "none"})

\* The content of the Generator of a decorated generator function that
\* calls itself on the argument list of the Generator.
C11_Witness ==
    /\ content # <<>>
    /\ content.of.def = "F"
    /\ fdef.decorators # <<>>
    /\ \E j \in DOMAIN fdef.returns : fdef.returns[j].kind = "call" /\ fdef.returns[j].args = content.of.args
    /\ Len(content.stmts) = 2

\* C12: when a decorator expression of the function has no candidate, or a
\* decorator call returns nothing, every get_return_types query on the
\* function returns the empty list and raises nothing.
C12_UnresolvableDecoratorDegrades ==
    \A i \in DOMAIN queries :
        Unresolvable => queries[i].raised = "" /\ queries[i].stmts = <<>>

\* C16: get_decorated_func calls the decorators from the last declared to the
\* first; each call is a call of the last candidate of the expression, on
\* one positional argument, an is_decorated Function wrapper of the current
\* target (which resolves to itself), and the first value returned is the
\* next target; without decorators, or on an is_decorated wrapper, the
\* wrapper itself is the result and no decorator is evaluated.
C16_DecoratorChainOrder ==
    /\ \A k \in DOMAIN applications :
          LET e == applications[k]
              n == Len(fdef.decorators)
          IN  /\ e.dec = n - k + 1
              /\ e.decorator = fdef.decorators[e.dec][Len(fdef.decorators[e.dec])]
              /\ Len(e.var_args) = 1
              /\ is_decorated(e.var_args[1])
              /\ base_func(e.var_args[1]) = TargetOf(k)
              /\ get_decorated_func(e.var_args[1]) = [raised |-> "", value |-> e.var_args[1], log |-> <<>>]
              /\ k < Len(applications) => e.wrappers # <<>>
    /\ (resolved # <<>> /\ (is_decorated(resolved.self) \/ fdef.decorators = <<>>)) =>
          /\ resolved.raised = ""
          /\ resolved.value = resolved.self
          /\ resolved.evaluated = 0
    /\ (resolved # <<>> /\ ~is_decorated(resolved.self) /\ resolved.raised = "" /\ fdef.decorators # <<>>) =>
          /\ Len(applications) = Len(fdef.decorators)
          /\ LET last == applications[Len(applications)].wrappers[1]
             IN  resolved.value = IF last = PrFunction("w") THEN Function(last) ELSE last

\* Two decorators were applied: the inner expression had two candidates, the
\* outer decorator returned two values.
C16_Witness ==
    /\ resolved # <<>>
    /\ resolved.raised = ""
    /\ Len(applications) = 2
    /\ Len(fdef.decorators[2]) = 2
    /\ applications[2].decorator = "both"

=============================================================================
